---- MODULE Spec2Model ----
(***************************************************************************)
(* A model of adeunis2gpx.py: the field parsers, the log parser            *)
(* (AdeunisLog.parse), the three serializers (toCSV, toGeoJSON, toGPX)     *)
(* and the main program.                                                   *)
(*                                                                         *)
(* Representation.  A Python str is a sequence of one-character strings.   *)
(* A Python value is a record [tag, val]: tag "int", "float" or "time"     *)
(* with its value, tag "None" for None, tag "raise" for a raised           *)
(* exception (val is unused and 0 in the last two).  A float holds a       *)
(* coordinate in units of 1/3600 degree, a time holds seconds since        *)
(* midnight.                                                               *)
(***************************************************************************)
EXTENDS Integers, Sequences, FiniteSets, TLC

VARIABLES
    pc,          \* position of the main program
    args,        \* parsed command line: [type, markers]
    infile,      \* contents of the input files: a sequence of files, each a sequence of lines
    fileNo,      \* index of the input file being parsed
    lineNo,      \* number of lines of that file already read
    samples,     \* AdeunisLog.samples
    openFiles,   \* file objects that are open: input indexes and "out"
    closedFiles, \* file objects that were closed
    written,     \* what was written to the output sink, one entry per write
    error,       \* the unhandled exception that ended the program, or "none"
    output,      \* the value returned by the serializer
    text,        \* the token handed to a field parser
    result,      \* the value a field parser returned
    sample,      \* the AdeunisSample one turn of a serializer's loop is at
    rendered     \* what that turn of the loop produced

vars == <<pc, args, infile, fileNo, lineNo, samples, openFiles, closedFiles,
          written, error, output, text, result, sample, rendered>>

mainVars == <<pc, args, infile, fileNo, lineNo, samples, openFiles,
              closedFiles, written, error, output>>
parserVars == <<text, result>>
sampleVars == <<sample, rendered>>

----------------------------------------------------------------------------
(* Bounds *)

MaxLen == 3          \* longest token enumerated exhaustively over Alphabet
MaxInt == 12         \* integers -MaxInt..MaxInt are formatted into unit tokens
MaxFiles == 2        \* most input files on the command line
MaxLines == 2        \* most lines over all the input files
MaxQ == 4            \* quality values 0..MaxQ are drawn for a sample

----------------------------------------------------------------------------
(* Python values *)

None == [tag |-> "None", val |-> 0]
PyIntVal(n) == [tag |-> "int", val |-> n]
PyFloatVal(n) == [tag |-> "float", val |-> n]
PyTimeVal(n) == [tag |-> "time", val |-> n]
ValueError == [tag |-> "raise", val |-> 0]

\* Python truth value of an Optional number or time: None, 0 and 0.0 are
\* false; a datetime.time is always true (Python >= 3.5).
Truthy(v) == v.tag \in {"int", "float", "time"} /\ (v.tag = "time" \/ v.val # 0)

----------------------------------------------------------------------------
(* Strings *)

Digits == {"0", "1", "2", "3", "4", "5", "6", "7", "8", "9"}

DigitVal(c) ==
    CASE c = "0" -> 0 [] c = "1" -> 1 [] c = "2" -> 2 [] c = "3" -> 3
      [] c = "4" -> 4 [] c = "5" -> 5 [] c = "6" -> 6 [] c = "7" -> 7
      [] c = "8" -> 8 [] c = "9" -> 9

DigitChar(d) ==
    CASE d = 0 -> "0" [] d = 1 -> "1" [] d = 2 -> "2" [] d = 3 -> "3"
      [] d = 4 -> "4" [] d = 5 -> "5" [] d = 6 -> "6" [] d = 7 -> "7"
      [] d = 8 -> "8" [] d = 9 -> "9"

RECURSIVE NatStr(_)
\* str(n) for n >= 0
NatStr(n) == IF n < 10 THEN <<DigitChar(n)>>
             ELSE NatStr(n \div 10) \o <<DigitChar(n % 10)>>

\* str(n), f"{n}"
IntStr(n) == IF n < 0 THEN <<"-">> \o NatStr(-n) ELSE NatStr(n)

\* f"{n:+}"
SignedStr(n) == IF n < 0 THEN <<"-">> \o NatStr(-n) ELSE <<"+">> \o NatStr(n)

RECURSIVE LStrip(_, _)
LStrip(s, chars) == IF s # <<>> /\ s[1] \in chars THEN LStrip(Tail(s), chars) ELSE s

RECURSIVE RStrip(_, _)
RStrip(s, chars) ==
    IF s # <<>> /\ s[Len(s)] \in chars THEN RStrip(SubSeq(s, 1, Len(s) - 1), chars) ELSE s

\* str.strip(chars): removes from both ends every character of the set chars
Strip(s, chars) == RStrip(LStrip(s, chars), chars)

RECURSIVE DecVal(_)
DecVal(ds) == IF ds = <<>> THEN 0
              ELSE DecVal(SubSeq(ds, 1, Len(ds) - 1)) * 10 + DigitVal(ds[Len(ds)])

AllDigits(s) == s # <<>> /\ \A i \in 1..Len(s) : s[i] \in Digits

\* int(str): an optional sign followed by decimal digits, else ValueError
\* (the tokens of the model hold no whitespace and no underscore).
PyInt(s) ==
    LET signed == s # <<>> /\ s[1] \in {"+", "-"}
        body == IF signed THEN Tail(s) ELSE s
    IN  IF ~AllDigits(body) THEN ValueError
        ELSE IF signed /\ s[1] = "-" THEN PyIntVal(-DecVal(body))
        ELSE PyIntVal(DecVal(body))

\* float(str), on the tokens of the model: integer literals (no fraction, no
\* exponent, no inf/nan); the value is kept in the unit a coordinate is
\* added up in by dms2dd, so float() itself returns the integer.
PyFloat(s) == PyInt(s)

----------------------------------------------------------------------------
(* Field parsers *)

parseDB(txt) ==
    LET r == PyInt(Strip(txt, {"d", "B"}))
    IN  IF r = ValueError THEN None ELSE r

\* parseFrequency without the conversion of kHz to Hz
parseFrequency_noscale(txt) ==
    LET r == PyInt(Strip(txt, {"k", "H", "z"}))
    IN  IF r = ValueError THEN None ELSE r
parseFrequency(txt) ==
    LET r == PyInt(Strip(txt, {"k", "H", "z"}))
    IN  IF r = ValueError THEN None ELSE PyIntVal(r.val * 1000)

parsePercent(txt) ==
    LET r == PyInt(Strip(txt, {"%"}))
    IN  IF r = ValueError THEN None ELSE r

parsePower(txt) ==
    LET r == PyInt(Strip(txt, {"d", "B", "m"}))
    IN  IF r = ValueError THEN None ELSE r

parseQ(txt) ==
    LET r == PyInt(txt)
    IN  IF r = ValueError THEN None ELSE r

parseSF(txt) ==
    LET r == PyInt(Strip(txt, {"S", "F"}))
    IN  IF r = ValueError THEN None ELSE r

\* time.fromisoformat on the extended format HH[:MM[:SS]] (no fraction, no
\* UTC offset; the format of Python 3.8 to 3.10): two-digit components
\* separated by ":", then the range check of the time constructor.
TimeFromIsoFormat(s) ==
    LET n == Len(s)
        two(i) == IF s[i] \in Digits /\ s[i + 1] \in Digits
                  THEN DigitVal(s[i]) * 10 + DigitVal(s[i + 1]) ELSE -1
        shape == /\ n \in {2, 5, 8}
                 /\ n >= 5 => s[3] = ":"
                 /\ n >= 8 => s[6] = ":"
        hh == two(1)
        mm == IF n >= 5 THEN two(4) ELSE 0
        ss == IF n >= 8 THEN two(7) ELSE 0
    IN  IF ~shape THEN ValueError
        ELSE IF hh \in 0..23 /\ mm \in 0..59 /\ ss \in 0..59
             THEN PyTimeVal(hh * 3600 + mm * 60 + ss)
             ELSE ValueError

parseTime(txt) ==
    LET r == TimeFromIsoFormat(txt)
    IN  IF r = ValueError THEN None ELSE r

----------------------------------------------------------------------------
(* Tokens handed to the field parsers *)

Alphabet == {"-", "0", "7", "d", "B", "m", "k", "H", "z", "S", "F", "%", "x"}

ShortTokens == UNION {[1..k -> Alphabet] : k \in 0..MaxLen}

UnitInts == (-MaxInt..MaxInt) \cup {868000, -90}

dB == <<"d", "B">>
dBm == <<"d", "B", "m">>
kHz == <<"k", "H", "z">>
SF == <<"S", "F">>
Pct == <<"%">>

UnitTokens ==
    {IntStr(n) \o u : n \in UnitInts, u \in {dB, dBm, kHz, Pct}}
        \cup {SF \o IntStr(n) : n \in UnitInts}
        \cup {IntStr(n) : n \in UnitInts}

TimeTokens ==
    { <<"1", "0", ":", "0", "0", ":", "0", "0">>,
      <<"2", "3", ":", "5", "9", ":", "5", "9">>,
      <<"0", "0", ":", "0", "0", ":", "0", "0">>,
      <<"1", "0", ":", "3", "0">>,
      <<"2", "4", ":", "0", "0", ":", "0", "0">>,
      <<"1", "0", ":", "6", "0", ":", "0", "0">>,
      <<"1", "0", ":", "0", "0", ":", "6", "0">>,
      <<"1", "0", "-", "0", "0", "-", "0", "0">>,
      <<"1", ":", "0", "0", ":", "0", "0">>,
      <<"1", "0", ":", "0", "0", ":", "0", "x">>,
      <<"x", "x">> }

Tokens == ShortTokens \cup UnitTokens \cup TimeTokens

----------------------------------------------------------------------------
(* The parsers applied to one token at a time *)

NoResult == [fn |-> "none", value |-> None]


CallParseDB ==
    /\ result' = [fn |-> "parseDB", value |-> parseDB(text)]
    /\ UNCHANGED <<text, mainVars, sampleVars>>
CallParseFrequency ==
    /\ result' = [fn |-> "parseFrequency", value |-> parseFrequency(text)]
    /\ UNCHANGED <<text, mainVars, sampleVars>>
CallParsePercent ==
    /\ result' = [fn |-> "parsePercent", value |-> parsePercent(text)]
    /\ UNCHANGED <<text, mainVars, sampleVars>>
CallParsePower ==
    /\ result' = [fn |-> "parsePower", value |-> parsePower(text)]
    /\ UNCHANGED <<text, mainVars, sampleVars>>
CallParseQ ==
    /\ result' = [fn |-> "parseQ", value |-> parseQ(text)]
    /\ UNCHANGED <<text, mainVars, sampleVars>>
CallParseSF ==
    /\ result' = [fn |-> "parseSF", value |-> parseSF(text)]
    /\ UNCHANGED <<text, mainVars, sampleVars>>
CallParseTime ==
    /\ result' = [fn |-> "parseTime", value |-> parseTime(text)]
    /\ UNCHANGED <<text, mainVars, sampleVars>>

NextParsers ==
    \/ CallParseDB
    \/ CallParseFrequency
    \/ CallParsePercent
    \/ CallParsePower
    \/ CallParseQ
    \/ CallParseSF
    \/ CallParseTime


----------------------------------------------------------------------------
(* Lines of a log and AdeunisLog.parse *)

Whitespace == {" ", "\t", "\n"}

RECURSIVE SplitFrom(_, _)
\* str.split(), from position i of s: the maximal runs of non-whitespace
\* characters, in order.  b is where the next run begins, e the position
\* after its end.
SplitFrom(s, i) ==
    LET n == Len(s)
    IN  IF \A j \in i..n : s[j] \in Whitespace THEN <<>>
        ELSE LET b == CHOOSE j \in i..n :
                        s[j] \notin Whitespace /\ \A k \in i..(j - 1) : s[k] \in Whitespace
                 e == IF \A j \in b..n : s[j] \notin Whitespace THEN n + 1
                      ELSE CHOOSE j \in b..n :
                               s[j] \in Whitespace
                                   /\ \A k \in b..(j - 1) : s[k] \notin Whitespace
             IN  <<SubSeq(s, b, e - 1)>> \o SplitFrom(s, e)

Split(s) == SplitFrom(s, 1)

\* dms2dd, in units of 1/3600 degree: degrees + minutes / 60 + seconds / 3600
dms2dd(degrees, minutes, seconds, direction) ==
    LET dd == degrees * 3600 + minutes * 60 + seconds
    IN  IF direction = <<"S">> \/ direction = <<"W">> THEN -dd ELSE dd

\* try: dms2dd(float(a), float(b), float(c), d) except ValueError: None
Coordinate(a, b, c, d) ==
    LET fa == PyFloat(a)
        fb == PyFloat(b)
        fc == PyFloat(c)
    IN  IF ValueError \in {fa, fb, fc} THEN None
        ELSE PyFloatVal(dms2dd(fa.val, fb.val, fc.val, d))

\* The AdeunisSample that parse builds from the 22 fields of a line; ul or dl
\* is ValueError when int() raises, and then no sample is built.
AdeunisSample(fields) ==
    [time |-> parseTime(fields[1]),
     latitude |-> Coordinate(fields[2], fields[3], fields[4], fields[5]),
     longitude |-> Coordinate(fields[6], fields[7], fields[8], fields[9]),
     uSF |-> parseSF(fields[10]),
     uFrequency |-> parseFrequency(fields[11]),
     uPower |-> parsePower(fields[12]),
     uSNR |-> parseDB(fields[13]),
     uQ |-> parseQ(fields[14]),
     dSF |-> parseSF(fields[15]),
     dFrequency |-> parseFrequency(fields[16]),
     dRSSI |-> parsePower(fields[17]),
     dSNR |-> parseDB(fields[18]),
     dQ |-> parseQ(fields[19]),
     ul |-> PyInt(fields[20]),
     dl |-> PyInt(fields[21]),
     per |-> parsePercent(fields[22])]

\* One turn of the loop of parse on a line: "skip" (continue), "raise"
\* (int() of a counter raises ValueError) or "append".
FieldCount == 22

\* ParseOutcome skipping only the lines of fewer than 22 fields
ParseOutcome_atleast(fields) ==
    IF Len(fields) < FieldCount THEN "skip"
    ELSE IF PyInt(fields[20]) = ValueError \/ PyInt(fields[21]) = ValueError
         THEN "raise"
         ELSE "append"

\* ParseOutcome with dl parsed by a guarded parser
ParseOutcome_ulonly(fields) ==
    IF Len(fields) # FieldCount THEN "skip"
    ELSE IF PyInt(fields[20]) = ValueError THEN "raise"
    ELSE "append"

ParseOutcome(fields) ==
    IF Len(fields) # FieldCount THEN "skip"
    ELSE IF PyInt(fields[20]) = ValueError \/ PyInt(fields[21]) = ValueError
         THEN "raise"
         ELSE "append"

----------------------------------------------------------------------------
(* Serializers *)

\* args.date, as a day number (2021-09-10)
Day == 18880

\* datetime.combine(day, time) when time is a datetime.time
Combine(day, t) == [tag |-> "datetime", val |-> day * 86400 + t.val]

\* The pre-filter of the three serializers:
\* if not (sample.latitude or sample.longitude): continue
Skipped(s) == ~(Truthy(s.latitude) \/ Truthy(s.longitude))

\* timestamp = datetime.combine(day, sample.time) if sample.time else None
Timestamp(s, day) == IF Truthy(s.time) THEN Combine(day, s.time) ELSE None

\* The row toCSV writes for a sample, in column order
CSVRow(s, day) ==
    <<Timestamp(s, day), s.latitude, s.longitude,
      s.uSF, s.uFrequency, s.uPower, s.uSNR, s.uQ,
      s.dSF, s.dFrequency, s.dRSSI, s.dSNR, s.dQ,
      s.ul, s.dl, s.per>>

CSVHeader ==
    <<"timestamp", "latitude", "longitude",
      "uSF", "uFrequency", "uPower", "uSNR", "uQ",
      "dSF", "dFrequency", "dRSSI", "dSNR", "dQ",
      "ul", "dl", "PER">>

RECURSIVE CSVRows(_, _)
CSVRows(ss, day) ==
    IF ss = <<>> THEN <<>>
    ELSE IF Skipped(Head(ss)) THEN CSVRows(Tail(ss), day)
    ELSE <<CSVRow(Head(ss), day)>> \o CSVRows(Tail(ss), day)

toCSV(ss, day) ==
    [kind |-> "csv", raised |-> FALSE, header |-> CSVHeader, records |-> CSVRows(ss, day)]

\* AdeunisSample.toGeoJSON: the properties set by the uplink conditionals
UplinkProperties(self) ==
    (IF Truthy(self.uSF) THEN "uSF" :> self.uSF ELSE <<>>)
    @@ (IF Truthy(self.uFrequency) THEN "uFrequency" :> self.uFrequency ELSE <<>>)
    @@ (IF Truthy(self.uPower) THEN "uPower" :> self.uPower ELSE <<>>)
    @@ (IF Truthy(self.uSNR) THEN "uSNR" :> self.uSNR ELSE <<>>)
    @@ (IF Truthy(self.uQ) THEN "uQ" :> self.uQ ELSE <<>>)

\* DownlinkProperties without the enclosing "if self.dFrequency:"
DownlinkProperties_ungated(self) ==
    (IF Truthy(self.dSF) THEN "dSF" :> self.dSF ELSE <<>>)
    @@ (IF Truthy(self.dFrequency) THEN "dFrequency" :> self.dFrequency ELSE <<>>)
    @@ (IF Truthy(self.dRSSI) THEN "dRSSI" :> self.dRSSI ELSE <<>>)
    @@ (IF Truthy(self.dSNR) THEN "dSNR" :> self.dSNR ELSE <<>>)
    @@ (IF Truthy(self.dQ) THEN "dQ" :> self.dQ ELSE <<>>)

\* AdeunisSample.toGeoJSON: the properties set under "if self.dFrequency:"
DownlinkProperties(self) ==
    IF Truthy(self.dFrequency)
    THEN (IF Truthy(self.dSF) THEN "dSF" :> self.dSF ELSE <<>>)
         @@ (IF Truthy(self.dFrequency) THEN "dFrequency" :> self.dFrequency ELSE <<>>)
         @@ (IF Truthy(self.dRSSI) THEN "dRSSI" :> self.dRSSI ELSE <<>>)
         @@ (IF Truthy(self.dSNR) THEN "dSNR" :> self.dSNR ELSE <<>>)
         @@ (IF Truthy(self.dQ) THEN "dQ" :> self.dQ ELSE <<>>)
    ELSE <<>>

\* AdeunisSample.toGeoJSON.  datetime.combine(day, None) raises TypeError, so
\* the call raises when self.time is None.
toGeoJSONFeature(self, day) ==
    IF self.time.tag # "time"
    THEN [raised |-> TRUE, geometry |-> <<>>, properties |-> <<>>]
    ELSE [raised |-> FALSE,
          geometry |-> <<self.longitude, self.latitude>>,
          properties |->
              ("timestamp" :> [tag |-> "str", val |-> Combine(day, self.time).val])
              @@ ("ul" :> self.ul) @@ ("dl" :> self.dl) @@ ("PER" :> self.per)
              @@ UplinkProperties(self) @@ DownlinkProperties(self)]

RECURSIVE Features(_, _)
\* the loop of AdeunisLog.toGeoJSON
Features(ss, day) ==
    IF ss = <<>> THEN <<>>
    ELSE IF Skipped(Head(ss)) THEN Features(Tail(ss), day)
    ELSE <<toGeoJSONFeature(Head(ss), day)>> \o Features(Tail(ss), day)

\* AdeunisLog.toGeoJSON: the call raises at the first retained sample whose
\* feature raises, and returns nothing then.
toGeoJSON(ss, day) ==
    LET fs == Features(ss, day)
    IN  IF \E i \in 1..Len(fs) : fs[i].raised
        THEN [kind |-> "geojson", raised |-> TRUE, header |-> <<>>, records |-> <<>>]
        ELSE [kind |-> "geojson", raised |-> FALSE, header |-> <<>>, records |-> fs]

Dash == <<"-">>

\* The literal the source writes after a decibel value
Unit3 == <<"?", "?", "?">>

\* f"{x / 1e6}MHz" for x a multiple of 1000 below 10^15: the shortest
\* decimal, with at least one fraction digit
MHzStr(x) ==
    LET k == (IF x < 0 THEN -x ELSE x) \div 1000
        whole == k \div 1000
        frac == k % 1000
        fracStr == IF frac % 100 = 0 THEN <<DigitChar(frac \div 100)>>
                   ELSE IF frac % 10 = 0
                        THEN <<DigitChar(frac \div 100), DigitChar((frac \div 10) % 10)>>
                        ELSE <<DigitChar(frac \div 100), DigitChar((frac \div 10) % 10),
                               DigitChar(frac % 10)>>
    IN  (IF x < 0 THEN <<"-">> ELSE <<>>) \o NatStr(whole) \o <<".">> \o fracStr
            \o <<"M", "H", "z">>

\* str(v) of an Optional integer
PyStr(v) == IF v.tag = "int" THEN IntStr(v.val) ELSE <<"N", "o", "n", "e">>

\* toGPX: the formatted fields of a sample
Fmt_uSF(s) == IF Truthy(s.uSF) THEN SF \o IntStr(s.uSF.val) ELSE Dash
Fmt_dSF(s) == IF Truthy(s.dSF) THEN SF \o IntStr(s.dSF.val) ELSE Dash
Fmt_uSNR(s) == IF Truthy(s.uSNR) THEN SignedStr(s.uSNR.val) \o Unit3 ELSE Dash
Fmt_dSNR(s) == IF Truthy(s.dSNR) THEN SignedStr(s.dSNR.val) \o Unit3 ELSE Dash
Fmt_uFrequency(s) == IF Truthy(s.uFrequency) THEN MHzStr(s.uFrequency.val) ELSE Dash
Fmt_dFrequency(s) == IF Truthy(s.dFrequency) THEN MHzStr(s.dFrequency.val) ELSE Dash
Fmt_uPower(s) == IF Truthy(s.uPower) THEN SignedStr(s.uPower.val) \o Unit3 \o <<"m">> ELSE Dash
Fmt_dRSSI(s) == IF Truthy(s.dRSSI) THEN SignedStr(s.dRSSI.val) \o Unit3 \o <<"m">> ELSE Dash
Fmt_uQ(s) == IF Truthy(s.uQ) THEN IntStr(s.uQ.val) ELSE Dash
Fmt_dQ(s) == IF Truthy(s.dQ) THEN IntStr(s.dQ.val) ELSE Dash
\* f"{sample.per}%"
Fmt_per(s) == PyStr(s.per) \o Pct

\* toGPX: the three lines of the description, each the fields it shows
Description(s) ==
    [Uplink |-> <<Fmt_uSF(s), Fmt_uFrequency(s), Fmt_uPower(s), Fmt_uSNR(s), Fmt_uQ(s)>>,
     Downlink |-> <<Fmt_dSF(s), Fmt_dFrequency(s), Fmt_dRSSI(s), Fmt_dSNR(s), Fmt_dQ(s)>>,
     Counters |-> <<PyStr(s.ul), PyStr(s.dl), Fmt_per(s)>>]

\* toGPX: the name of the waypoint
WaypointName(s) ==
    LET nameD == IF Truthy(s.dRSSI) THEN Unit3 \o Fmt_dRSSI(s) \o Unit3 \o Fmt_dSNR(s) ELSE <<>>
        nameU == IF Truthy(s.uSNR) THEN Unit3 \o Fmt_uSNR(s) ELSE <<>>
    IN  IF nameD # <<>> /\ nameU # <<>> THEN nameD \o <<" ">> \o nameU
        ELSE IF nameD # <<>> THEN nameD
        ELSE IF nameU # <<>> THEN nameU
        ELSE Unit3

Q_SYMBOL_MISSING == "Navaid, Black"
Q_SYMBOL_UNKNOWN == "Navaid, White"
Q_SYMBOLS ==
    (0 :> "Navaid, Red") @@ (1 :> "Navaid, Orange") @@ (2 :> "Navaid, Amber")
        @@ (3 :> "Navaid, Green")

\* dict.get(key, default)
Get(d, key, default) == IF key \in DOMAIN d THEN d[key] ELSE default

\* toGPX: the symbol of the waypoint
Symbol(s, markers) ==
    IF markers = "cross" THEN "Crossing"
    ELSE IF markers = "downlink" /\ Truthy(s.dQ)
         THEN Get(Q_SYMBOLS, s.dQ.val, Q_SYMBOL_UNKNOWN)
    ELSE IF markers = "uplink" /\ Truthy(s.uQ)
         THEN Get(Q_SYMBOLS, s.uQ.val, Q_SYMBOL_UNKNOWN)
    ELSE Q_SYMBOL_MISSING

\* toGPX: the waypoint built for a retained sample
Waypoint(s, day, markers) ==
    [latitude |-> s.latitude, longitude |-> s.longitude,
     time |-> Timestamp(s, day), name |-> WaypointName(s),
     symbol |-> Symbol(s, markers), description |-> Description(s)]

RECURSIVE Waypoints(_, _, _)
Waypoints(ss, day, markers) ==
    IF ss = <<>> THEN <<>>
    ELSE IF Skipped(Head(ss)) THEN Waypoints(Tail(ss), day, markers)
    ELSE <<Waypoint(Head(ss), day, markers)>> \o Waypoints(Tail(ss), day, markers)

toGPX(ss, day, markers) ==
    [kind |-> "gpx", raised |-> FALSE, header |-> <<>>,
     records |-> Waypoints(ss, day, markers)]


----------------------------------------------------------------------------
(* Field tokens and log lines *)

XX == <<"x", "x">>
GoodTime == <<"1", "0", ":", "0", "0", ":", "0", "0">>
GoodLat == <<IntStr(40), IntStr(26), IntStr(46), <<"N">>>>
GoodLon == <<IntStr(3), IntStr(42), IntStr(21), <<"W">>>>
ZeroLat == <<IntStr(0), IntStr(0), IntStr(0), <<"N">>>>
ZeroLon == <<IntStr(0), IntStr(0), IntStr(0), <<"E">>>>
BadCoord == <<XX, IntStr(26), IntStr(46), <<"N">>>>
GoodUp == <<SF \o IntStr(7), IntStr(868000) \o kHz, IntStr(-2) \o dBm, IntStr(5) \o dB, IntStr(3)>>
GoodDown == <<SF \o IntStr(9), IntStr(868000) \o kHz, IntStr(-90) \o dBm, IntStr(4) \o dB, IntStr(2)>>
BadRadio == <<XX, XX, XX, XX, XX>>
GoodUl == IntStr(10)
GoodDl == IntStr(9)
GoodPer == IntStr(5) \o Pct

Fields22(tm, lat, lon, up, down, ul, dl, pr) ==
    <<tm>> \o lat \o lon \o up \o down \o <<ul, dl, pr>>

\* the line of the end-to-end example of the documentation
GoodFields == Fields22(GoodTime, GoodLat, GoodLon, GoodUp, GoodDown, GoodUl, GoodDl, GoodPer)

RECURSIVE Join(_, _)
Join(fields, sep) ==
    IF fields = <<>> THEN <<>>
    ELSE IF Len(fields) = 1 THEN fields[1]
    ELSE fields[1] \o sep \o Join(Tail(fields), sep)

LineNames ==
    {"good", "notime", "allbad", "zero", "latonly", "badul", "baddl",
     "short", "long", "empty"}

\* The text readline returns for each line of the model
LineText(name) ==
    CASE name = "good" -> Join(GoodFields, <<" ">>) \o <<"\n">>
      [] name = "notime" ->
            Join(Fields22(XX, GoodLat, GoodLon, GoodUp, GoodDown, GoodUl, GoodDl, GoodPer),
                 <<"\t">>) \o <<"\n">>
      [] name = "allbad" ->
            Join(Fields22(XX, <<XX, XX, XX, XX>>, <<XX, XX, XX, XX>>, BadRadio, BadRadio,
                          GoodUl, GoodDl, XX), <<" ", " ">>) \o <<"\n">>
      [] name = "zero" ->
            Join(Fields22(GoodTime, ZeroLat, ZeroLon, GoodUp, GoodDown, GoodUl, GoodDl,
                          GoodPer), <<" ">>) \o <<"\n">>
      [] name = "latonly" ->
            <<" ">> \o Join(Fields22(GoodTime, GoodLat, BadCoord, GoodUp, BadRadio, GoodUl,
                                     GoodDl, XX), <<" ">>) \o <<" ", "\n">>
      [] name = "badul" ->
            Join(Fields22(GoodTime, GoodLat, GoodLon, GoodUp, GoodDown, XX, GoodDl,
                          GoodPer), <<" ">>) \o <<"\n">>
      [] name = "baddl" ->
            Join(Fields22(GoodTime, GoodLat, GoodLon, GoodUp, GoodDown, GoodUl,
                          <<"9", ".", "5">>, GoodPer), <<" ">>) \o <<"\n">>
      [] name = "short" -> Join(SubSeq(GoodFields, 1, 21), <<" ">>) \o <<"\n">>
      [] name = "long" -> Join(GoodFields \o <<XX>>, <<" ">>) \o <<"\n">>
      [] name = "empty" -> <<"\n">>

----------------------------------------------------------------------------
(* One turn of a serializer's loop on one sample *)

Markers == {"cross", "downlink", "uplink"}

QTokens == {XX} \cup {IntStr(q) : q \in 0..MaxQ}

RadioChoices(sf, rssi, snr) ==
    {<<a, b, c, d, e>> :
        a \in {XX, SF \o IntStr(0), SF \o IntStr(sf)},
        b \in {XX, IntStr(0) \o kHz, IntStr(868000) \o kHz},
        c \in {XX, IntStr(0) \o dBm, IntStr(rssi) \o dBm},
        d \in {XX, IntStr(0) \o dB, IntStr(snr) \o dB},
        e \in QTokens}

UpDownChoices ==
    (RadioChoices(7, -2, 5) \X {GoodDown, BadRadio})
        \cup ({GoodUp, BadRadio} \X RadioChoices(9, -90, 4))

SampleFields ==
    {Fields22(tm, ll[1], ll[2], ud[1], ud[2], GoodUl, GoodDl, pr) :
        tm \in {GoodTime, XX},
        ll \in {<<GoodLat, GoodLon>>, <<GoodLat, BadCoord>>, <<BadCoord, BadCoord>>},
        ud \in UpDownChoices,
        pr \in {GoodPer, XX}}

\* records: the records this turn of the loop added to the output
NoRender == [kind |-> "none", markers |-> "cross", records |-> <<>>]


\* if not (sample.latitude or sample.longitude): continue
RenderSkip ==
    /\ rendered = NoRender
    /\ Skipped(sample)
    /\ rendered' = [kind |-> "skip", markers |-> "cross", records |-> <<>>]
    /\ UNCHANGED <<sample, mainVars, parserVars>>

\* toCSV: writer.writerow(...)
RenderCSVRow ==
    /\ rendered = NoRender
    /\ ~Skipped(sample)
    /\ rendered' = [kind |-> "csv", markers |-> "cross", records |-> <<CSVRow(sample, Day)>>]
    /\ UNCHANGED <<sample, mainVars, parserVars>>

\* toGeoJSON: features.append(sample.toGeoJSON(day))
RenderFeature ==
    /\ rendered = NoRender
    /\ ~Skipped(sample)
    /\ rendered' = [kind |-> "geojson", markers |-> "cross",
                    records |-> <<toGeoJSONFeature(sample, Day)>>]
    /\ UNCHANGED <<sample, mainVars, parserVars>>

\* toGPX: the waypoint appended to out.waypoints
RenderWaypoint ==
    /\ rendered = NoRender
    /\ ~Skipped(sample)
    /\ \E m \in Markers :
          rendered' = [kind |-> "gpx", markers |-> m,
                       records |-> <<Waypoint(sample, Day, m)>>]
    /\ UNCHANGED <<sample, mainVars, parserVars>>

NextSample ==
    \/ RenderSkip
    \/ RenderCSVRow
    \/ RenderFeature
    \/ RenderWaypoint


----------------------------------------------------------------------------
(* The main program *)

\* file object 0 is args.output; file object i >= 1 is args.infile[i - 1]
OutFile == 0

NoOutput == [kind |-> "none", raised |-> FALSE, header |-> <<>>, records |-> <<>>]

LineSeqs == UNION {[1..n -> LineNames] : n \in 0..MaxLines}

\* the lines all cut into Len(cuts) + 1 files at the positions cuts
CutFiles(all, cuts) ==
    LET f == Len(cuts) + 1
        lo(i) == IF i = 1 THEN 0 ELSE cuts[i - 1]
        hi(i) == IF i = f THEN Len(all) ELSE cuts[i]
    IN  [i \in 1..f |-> SubSeq(all, lo(i) + 1, hi(i))]

\* the nondecreasing cut positions of n lines into 1..MaxFiles files
Cuts(n) ==
    {c \in UNION {[1..k -> 0..n] : k \in 0..(MaxFiles - 1)} :
        \A i \in 2..Len(c) : c[i - 1] <= c[i]}

\* 1..MaxFiles input files holding at most MaxLines lines together
InputFiles == UNION {{CutFiles(all, cuts) : cuts \in Cuts(Len(all))} : all \in LineSeqs}

\* -t and -m; the marker mode is read by toGPX alone
ArgsSet ==
    {[type |-> "csv", markers |-> "cross"], [type |-> "geojson", markers |-> "cross"]}
        \cup {[type |-> "gpx", markers |-> m] : m \in Markers}

\* parser.parse_args(): FileType("r") opens every input file and FileType("w")
\* opens the output as the arguments are parsed.
ParseArgs ==
    /\ pc = "args"
    /\ pc' = "parse"
    /\ openFiles' = 0..Len(infile)
    /\ fileNo' = 1
    /\ lineNo' = 0
    /\ UNCHANGED <<args, infile, samples, closedFiles, written, error, output,
                   parserVars, sampleVars>>

\* fields = line.split(), for each line of the model
SplitLine == [name \in LineNames |-> Split(LineText(name))]

\* the fields of the line that readline returns next
CurrentFields == SplitLine[infile[fileNo][lineNo + 1]]

AtLine == pc = "parse" /\ lineNo < Len(infile[fileNo])

\* parse: a line that does not split into 22 fields
ParseSkip ==
    /\ AtLine
    /\ ParseOutcome(CurrentFields) = "skip"
    /\ lineNo' = lineNo + 1
    /\ UNCHANGED <<pc, args, infile, fileNo, samples, openFiles, closedFiles, written,
                   error, output, parserVars, sampleVars>>

\* ParseAppend inserting the sample at the head of the list
ParseAppend_prepend ==
    /\ AtLine
    /\ ParseOutcome(CurrentFields) = "append"
    /\ samples' = <<AdeunisSample(CurrentFields)>> \o samples
    /\ lineNo' = lineNo + 1
    /\ UNCHANGED <<pc, args, infile, fileNo, openFiles, closedFiles, written, error,
                   output, parserVars, sampleVars>>

\* parse: a line of 22 fields whose counters are integers
ParseAppend ==
    /\ AtLine
    /\ ParseOutcome(CurrentFields) = "append"
    /\ samples' = Append(samples, AdeunisSample(CurrentFields))
    /\ lineNo' = lineNo + 1
    /\ UNCHANGED <<pc, args, infile, fileNo, openFiles, closedFiles, written, error,
                   output, parserVars, sampleVars>>

\* parse: int() of a counter raises; the with statement closes the file and
\* the exception ends the program
ParseRaise ==
    /\ AtLine
    /\ ParseOutcome(CurrentFields) = "raise"
    /\ lineNo' = lineNo + 1
    /\ error' = "ValueError"
    /\ pc' = "exit"
    /\ openFiles' = openFiles \ {fileNo}
    /\ closedFiles' = closedFiles \cup {fileNo}
    /\ UNCHANGED <<args, infile, fileNo, samples, written, output, parserVars, sampleVars>>

\* parse: readline returns "" and parse returns; the with statement closes
\* the file and the loop goes to the next one
ParseEOF ==
    /\ pc = "parse"
    /\ lineNo = Len(infile[fileNo])
    /\ openFiles' = openFiles \ {fileNo}
    /\ closedFiles' = closedFiles \cup {fileNo}
    /\ IF fileNo < Len(infile)
       THEN fileNo' = fileNo + 1 /\ lineNo' = 0 /\ pc' = pc
       ELSE pc' = "render" /\ UNCHANGED <<fileNo, lineNo>>
    /\ UNCHANGED <<args, infile, samples, written, error, output, parserVars, sampleVars>>

\* with args.output as f: output = <serializer>; f.write(output).  When the
\* serializer raises nothing is written, the with statement closes the
\* output and the exception ends the program.
Emit(out) ==
    /\ output' = out
    /\ IF out.raised
       THEN /\ error' = "TypeError"
            /\ pc' = "exit"
            /\ openFiles' = openFiles \ {OutFile}
            /\ closedFiles' = closedFiles \cup {OutFile}
            /\ UNCHANGED written
       ELSE /\ written' = Append(written, out)
            /\ pc' = "written"
            /\ UNCHANGED <<error, openFiles, closedFiles>>
    /\ UNCHANGED <<args, infile, fileNo, lineNo, samples, parserVars, sampleVars>>

RenderCSV == pc = "render" /\ args.type = "csv" /\ Emit(toCSV(samples, Day))

RenderGeoJSON == pc = "render" /\ args.type = "geojson" /\ Emit(toGeoJSON(samples, Day))

RenderGPX == pc = "render" /\ args.type = "gpx" /\ Emit(toGPX(samples, Day, args.markers))

\* the end of "with args.output as f"
CloseOutput ==
    /\ pc = "written"
    /\ pc' = "exit"
    /\ openFiles' = openFiles \ {OutFile}
    /\ closedFiles' = closedFiles \cup {OutFile}
    /\ UNCHANGED <<args, infile, fileNo, lineNo, samples, written, error, output,
                   parserVars, sampleVars>>

Next ==
    \/ ParseArgs
    \/ ParseSkip
    \/ ParseAppend
    \/ ParseRaise
    \/ ParseEOF
    \/ RenderCSV
    \/ RenderGeoJSON
    \/ RenderGPX
    \/ CloseOutput

----------------------------------------------------------------------------
(* Specifications *)

\* a run of the program on every choice of arguments and input files
Init ==
    /\ pc = "args"
    /\ args \in ArgsSet
    /\ infile \in InputFiles
    /\ fileNo = 0
    /\ lineNo = 0
    /\ samples = <<>>
    /\ openFiles = {}
    /\ closedFiles = {}
    /\ written = <<>>
    /\ error = "none"
    /\ output = NoOutput
    /\ text = <<>>
    /\ result = NoResult
    /\ sample = AdeunisSample(GoodFields)
    /\ rendered = NoRender

Spec == Init /\ [][Next]_vars

\* the field parsers on every token
InitParsers ==
    /\ text \in Tokens
    /\ result = NoResult
    /\ pc = "idle"
    /\ args = [type |-> "gpx", markers |-> "cross"]
    /\ infile = <<>>
    /\ fileNo = 0
    /\ lineNo = 0
    /\ samples = <<>>
    /\ openFiles = {}
    /\ closedFiles = {}
    /\ written = <<>>
    /\ error = "none"
    /\ output = NoOutput
    /\ sample = AdeunisSample(GoodFields)
    /\ rendered = NoRender

SpecParsers == InitParsers /\ [][NextParsers]_vars

\* one turn of a serializer's loop on every sample
InitSample ==
    /\ sample \in {AdeunisSample(f) : f \in SampleFields}
    /\ rendered = NoRender
    /\ pc = "idle"
    /\ args = [type |-> "gpx", markers |-> "cross"]
    /\ infile = <<>>
    /\ fileNo = 0
    /\ lineNo = 0
    /\ samples = <<>>
    /\ openFiles = {}
    /\ closedFiles = {}
    /\ written = <<>>
    /\ error = "none"
    /\ output = NoOutput
    /\ text = <<>>
    /\ result = NoResult

SpecSample == InitSample /\ [][NextSample]_vars


----------------------------------------------------------------------------
(* What the claims are stated with *)

\* a value that is present and not zero
NonZero(v) == v # None /\ v.val # 0

\* the number of whitespace-separated tokens of a line: the positions where
\* a token begins
TokenCount(line) ==
    Cardinality({i \in 1..Len(line) :
                    line[i] \notin Whitespace /\ (i = 1 \/ line[i - 1] \in Whitespace)})

\* a counter token that is the decimal writing of an integer
IsIntegerToken(tok) == \E n \in 0..99 : tok = IntStr(n)

\* a line of 22 tokens whose two counters are integers
LineAccepted ==
    [name \in LineNames |->
        /\ TokenCount(LineText(name)) = 22
        /\ IsIntegerToken(SplitLine[name][20])
        /\ IsIntegerToken(SplitLine[name][21])]

\* a line of 22 tokens one of whose counters is not an integer
LineFatal ==
    [name \in LineNames |->
        /\ TokenCount(LineText(name)) = 22
        /\ ~(IsIntegerToken(SplitLine[name][20]) /\ IsIntegerToken(SplitLine[name][21]))]

RECURSIVE ConcatFiles(_)
ConcatFiles(k) == IF k = 0 THEN <<>> ELSE ConcatFiles(k - 1) \o infile[k]

\* the lines read so far, in the order they were read
Consumed ==
    IF fileNo = 0 THEN <<>>
    ELSE ConcatFiles(fileNo - 1) \o SubSeq(infile[fileNo], 1, lineNo)

AcceptedCount(lines) == Cardinality({i \in 1..Len(lines) : LineAccepted[lines[i]]})

\* the samples of the accepted lines among lines, in order
SamplesOf(lines) ==
    LET acc == SelectSeq(lines, LAMBDA n : LineAccepted[n])
    IN  [i \in 1..Len(acc) |-> AdeunisSample(SplitLine[acc[i]])]

IsPrefix(a, b) == Len(a) <= Len(b) /\ SubSeq(b, 1, Len(a)) = a

\* a sample one of whose coordinates is present and not zero
HasCoordinate(s) == NonZero(s.latitude) \/ NonZero(s.longitude)

\* the coordinates <<latitude, longitude>> of a record of the output
RecordCoordinates(kind, r) ==
    CASE kind = "csv" -> <<r[2], r[3]>>
      [] kind = "geojson" -> <<r.geometry[2], r.geometry[1]>>
      [] kind = "gpx" -> <<r.latitude, r.longitude>>

UplinkKeys == {"uSF", "uFrequency", "uPower", "uSNR", "uQ"}
DownlinkKeys == {"dSF", "dFrequency", "dRSSI", "dSNR", "dQ"}
BaseKeys == {"timestamp", "ul", "dl", "PER"}

----------------------------------------------------------------------------
(* C1 *)

\* C1: parse appends exactly one Sample for every line read that splits
\* into 22 tokens with integer counters, and none for any other line: the
\* number of Samples is the number of such lines read.
C1_OneSamplePerLine == Len(samples) = AcceptedCount(Consumed)

\* a run read a 22-token line whose 20 other fields are all malformed and a
\* 23-token line, and holds one Sample
C1_Witness ==
    /\ pc = "exit"
    /\ error = "none"
    /\ Consumed = <<"allbad", "long">>
    /\ Len(samples) = 1

(* C2 *)

\* C2: in each serializer the records of the output are the Samples with a
\* present, non-zero coordinate, once each and in Log order.
C2_RecordIffCoordinate ==
    output.kind # "none" =>
        LET kept == SelectSeq(samples, HasCoordinate)
        IN  /\ Len(output.records) = Len(kept)
            /\ \A i \in 1..Len(kept) :
                  RecordCoordinates(output.kind, output.records[i])
                      = <<kept[i].latitude, kept[i].longitude>>

(* C3 *)

\* C3: a soft parse failure is never surfaced: once the inputs are parsed
\* the serializer returns and its output is written, also when a retained
\* Sample has no time.
C3_SerializerNeverRaises ==
    /\ error # "TypeError"
    /\ ~output.raised
    /\ (pc = "exit" /\ error = "none") => written = <<output>>

(* C4 *)

\* C4: a non-integer ul or dl on a 22-token line is fatal, and nothing else
\* is: the run has ended with ValueError exactly when such a line was read;
\* it was the last line read, no Sample was appended for it, no serializer
\* ran, nothing was written and the program takes no further step.
C4_MalformedCounterFatal ==
    LET fatal == {i \in 1..Len(Consumed) : LineFatal[Consumed[i]]}
    IN  /\ error = "ValueError" <=> fatal # {}
        /\ fatal # {} =>
              /\ fatal = {Len(Consumed)}
              /\ pc = "exit"
              /\ samples = SamplesOf(SubSeq(Consumed, 1, Len(Consumed) - 1))
              /\ output = NoOutput
              /\ written = <<>>
              /\ ~ENABLED Next

\* a malformed dl ended the run in the first of two files, before a good
\* line of the second file, after a line with every other field malformed
C4_Witness ==
    /\ error = "ValueError"
    /\ Len(infile) = 2
    /\ infile[1] = <<"allbad", "baddl">>
    /\ Len(samples) = 1

(* C9 *)

\* C9: the Log is the Samples of the accepted lines read so far, in file
\* order and line order; a step only appends to it, and the serializers
\* leave it unchanged.
C9_LogAppendOnly ==
    /\ [](samples = SamplesOf(Consumed))
    /\ [][/\ IsPrefix(samples, samples')
          /\ pc \in {"render", "written"} => samples' = samples]_vars

\* two files of one accepted line each gave two different Samples, of which
\* the serializer kept one
C9_Witness ==
    /\ pc = "exit"
    /\ error = "none"
    /\ Len(infile) = 2
    /\ Len(infile[1]) = 1
    /\ Len(infile[2]) = 1
    /\ Len(samples) = 2
    /\ samples[1] # samples[2]
    /\ Len(output.records) = 1

(* C10 *)

\* C10: at most one input file is open at any moment, the output is written
\* once and after every input is closed, and every opened file is closed
\* when the run ends.
C10_ScopedFiles ==
    /\ Cardinality(openFiles \ {OutFile}) <= 1
    /\ Len(written) <= 1
    /\ written # <<>> => (1..Len(infile)) \subseteq closedFiles
    /\ pc = "exit" => openFiles = {}


----------------------------------------------------------------------------
(* C5 *)

\* the token made of the integer n and the unit of a parser
UnitToken(fn, n) ==
    CASE fn = "parseDB" -> IntStr(n) \o dB
      [] fn = "parsePower" -> IntStr(n) \o dBm
      [] fn = "parseFrequency" -> IntStr(n) \o kHz
      [] fn = "parsePercent" -> IntStr(n) \o Pct
      [] fn = "parseSF" -> SF \o IntStr(n)
      [] fn = "parseQ" -> IntStr(n)

HasDigit(s) == \E i \in 1..Len(s) : s[i] \in Digits

C7_AbsentShownAsDash ==
    rendered.kind = "gpx" =>
        LET d == rendered.records[1].description
            shown == [uSF |-> d.Uplink[1], uFrequency |-> d.Uplink[2], uPower |-> d.Uplink[3],
                      uSNR |-> d.Uplink[4], uQ |-> d.Uplink[5],
                      dSF |-> d.Downlink[1], dFrequency |-> d.Downlink[2],
                      dRSSI |-> d.Downlink[3], dSNR |-> d.Downlink[4], dQ |-> d.Downlink[5],
                      per |-> d.Counters[3]]
        IN  \A f \in DOMAIN shown : sample[f] = None => shown[f] = Dash

(* C8 *)

\* C8: the symbol of a waypoint is the cross symbol with markers=cross;
\* else Q_SYMBOLS[q] when the quality q of the chosen link is 0, 1, 2 or 3,
\* and a symbol outside the palette when q is absent or not in 0..3.
C8_SymbolByQuality ==
    rendered.kind = "gpx" =>
        LET q == IF rendered.markers = "downlink" THEN sample.dQ ELSE sample.uQ
            palette == {Q_SYMBOLS[i] : i \in DOMAIN Q_SYMBOLS}
        IN  IF rendered.markers = "cross" THEN rendered.records[1].symbol = "Crossing"
            ELSE IF q # None /\ q.val \in 0..3
                 THEN rendered.records[1].symbol = Q_SYMBOLS[q.val]
                 ELSE rendered.records[1].symbol \notin palette

====
